---- MODULE Spec2Model ----
(***************************************************************************)
(* Model of the request handler built by createApiServer (src/src/main.js) *)
(* and of its helper send.  One asynchronous task per in-flight request:   *)
(* every variable below is a function of the request, except the route     *)
(* table and the compiled validators, which all requests share.            *)
(***************************************************************************)
EXTENDS Integers, Sequences, FiniteSets, TLC

VARIABLES routes,     \* route table, "<METHOD> <path>" -> descriptor
          validators, \* compiled predicate (its schema) per endpoint
          request,    \* the incoming message: method, pathname, query, headers
          session,    \* request.session
          body,       \* request.body
          response,   \* the server response object
          pc,         \* where the handler of the request stands
          size,       \* let size   (body ingest)
          parts,      \* const parts (body ingest)
          stream,     \* the request seen as a readable stream
          promise,    \* the promise awaited at main.js:79
          error,      \* the exception in flight to a catch clause
          stages      \* history: the stages that ran, in order

vars == <<routes, validators, request, session, body, response, pc, size,
          parts, stream, promise, error, stages>>

(***************************************************************************)
(* Bounds of the model.                                                    *)
(***************************************************************************)
MaxChunks == 3

\* Byte lengths of the chunks a body stream may deliver.
ChunkSizes == {4, 7, 1048576}

\* The requests in flight.
Reqs == {1, 2}

\* The request followed by the single-request specification.
Solo == {1}

(***************************************************************************)
(* Route descriptors.  A descriptor is a record holding only the keys the  *)
(* route module declares: a missing key is JavaScript's undefined.         *)
(***************************************************************************)
DefaultLimit == 1048576

Has(obj, key) == key \in DOMAIN obj

\* route.<key> used as a condition, for the boolean-valued keys.
Truthy(obj, key) == Has(obj, key) /\ obj[key] = TRUE

\* A validate fragment: the set of <<property, required type>> it declares.
BodySchema == {<<"body", "object">>}
QuerySchema == {<<"query", "number">>}

RouteTable ==
    <<"GET", "/foo">>       :> [respond |-> TRUE]
 @@ <<"GET", "/norespond">> :> [authenticate |-> TRUE]
 @@ <<"GET", "/important">> :> [respond |-> TRUE, authenticate |-> TRUE]
 @@ <<"GET", "/cors">>      :> [respond |-> TRUE,
                                headers |-> {"Access-Control-Allow-Origin"}]
 @@ <<"GET", "/page">>      :> [respond |-> TRUE, prepare |-> TRUE,
                                validate |-> QuerySchema]
 @@ <<"GET", "/search">>    :> [respond |-> TRUE, json |-> TRUE]
 @@ <<"POST", "/json">>     :> [respond |-> TRUE, limit |-> 10,
                                validate |-> BodySchema]
 @@ <<"POST", "/upload">>   :> [respond |-> TRUE, authenticate |-> TRUE,
                                json |-> TRUE]
 @@ <<"POST", "/zero">>     :> [respond |-> TRUE, limit |-> 0,
                                prepare |-> TRUE]
 @@ <<"POST", "/raw">>      :> [respond |-> TRUE, accept |-> "text/plain"]

Methods == {"GET", "POST"}
Paths == {"/foo", "/bar", "/norespond", "/important", "/cors", "/page",
          "/search", "/json", "/upload", "/zero", "/raw"}

\* services.jwtSecret, fixed when the server is constructed.
jwtSecret == "s1"

(***************************************************************************)
(* Collaborators: cookie.parse, jwt.verify, the content-type pattern, the  *)
(* numeric comparison of a header string, JSON.parse and ajv.              *)
(***************************************************************************)
Tokens == {"", "garbage", "s1.live", "s1.expired", "s2.live"}

\* A raw Cookie header: a sequence of <<name, value>> pairs; <<>> when the
\* header is absent (main.js:44 replaces an absent header by '').
CookieHeaders ==
    {<<>>, << <<"theme", "dark">> >>,
     << <<"theme", "dark">>, <<"token", "s1.live">> >>}
    \cup {<< <<"token", t>> >> : t \in Tokens}

\* cookie.parse(header).token: the value of the first pair named token,
\* as a sequence of zero or one values.
RECURSIVE CookieToken(_)
CookieToken(header) ==
    IF header = <<>> THEN <<>>
    ELSE IF Head(header)[1] = "token" THEN <<Head(header)[2]>>
    ELSE CookieToken(Tail(header))

TokenKey(t) ==
    CASE t \in {"s1.live", "s1.expired"} -> "s1"
      [] t = "s2.live" -> "s2"
      [] OTHER -> "none"

TokenExpired(t) == t = "s1.expired"

\* jwt.verify(token, secret): the claims, or a throw.
JwtVerify(t, secret) ==
    IF TokenKey(t) = secret /\ ~TokenExpired(t)
    THEN [ok |-> TRUE, claims |-> "claims"]
    ELSE [ok |-> FALSE, claims |-> "none"]

\* A Content-Type header value, cut into the tokens the pattern tells apart.
ContentTypes ==
    {<<"application/json">>,
     <<"application/json", ";", "charset=utf-8">>,
     <<"application/json", " ", ";", "charset=utf-8">>,
     <<"application/json", " ">>,
     <<"application/json", "x">>,
     <<"text/plain">>}

RECURSIVE SkipSpaces(_)
SkipSpaces(toks) ==
    IF toks # <<>> /\ Head(toks) = " " THEN SkipSpaces(Tail(toks)) ELSE toks

\* /^application\/json(?:\s*)(?:[;]|$)/.test(value); an absent header is
\* tested as the string "undefined".
MatchesJson(header) ==
    /\ header # <<>>
    /\ LET toks == header[1] IN
       /\ toks # <<>>
       /\ Head(toks) = "application/json"
       /\ LET rest == SkipSpaces(Tail(toks)) IN
          rest = <<>> \/ Head(rest) = ";"

\* Content-Length header strings, and the number each converts to in a
\* comparison (<<>> is NaN).
ContentLengths == {"5", "11", "1048577", "abc"}

ToNumber(s) ==
    CASE s = "5" -> <<5>>
      [] s = "11" -> <<11>>
      [] s = "1048577" -> <<1048577>>
      [] OTHER -> <<>>

\* request.headers['content-length'] > limit
HeaderGreater(header, limit) ==
    /\ header # <<>>
    /\ ToNumber(header[1]) # <<>>
    /\ ToNumber(header[1])[1] > limit

Option(S) == {<<>>} \cup {<<v>> : v \in S}

RequestHeaders ==
    [cookie : CookieHeaders,
     contentType : Option(ContentTypes),
     contentLength : Option(ContentLengths)]

\* url.parse(request.url, true).query: no page, or page as the string "2";
\* "num:2" is the value once a prepare delegate has applied parseInt.
Queries == {"none", "str:2"}

Requests ==
    [method : Methods, pathname : Paths, query : Queries,
     headers : RequestHeaders]

NoRequest == [method |-> "-", pathname |-> "-", query |-> "none",
              headers |-> [cookie |-> <<>>, contentType |-> <<>>,
                           contentLength |-> <<>>]]

(***************************************************************************)
(* The response object and send (main.js:134-143).                         *)
(***************************************************************************)
NewResponse ==
    [statusCode |-> 200, headers |-> {}, headersSent |-> FALSE,
     writableEnded |-> FALSE, wire |-> <<>>, sendCalls |-> 0]

Failure(text) == [kind |-> "failure", text |-> text]
Success(text) == [kind |-> "success", text |-> text]

\* send(response, status, message).  The status property is assigned first;
\* setHeader throws ERR_HTTP_HEADERS_SENT on a response whose headers went
\* out; otherwise end(data) finalizes the response.
send(resp, status, message) ==
    LET r1 == [resp EXCEPT !.statusCode = status, !.sendCalls = @ + 1] IN
    IF resp.headersSent
    THEN [response |-> r1, threw |-> TRUE]
    ELSE [response |->
             [r1 EXCEPT !.headers = @ \cup {"Content-Type", "Content-Length"},
                        !.headersSent = TRUE,
                        !.writableEnded = TRUE,
                        !.wire = Append(@, [status |-> status,
                                            message |-> message])],
          threw |-> FALSE]

(***************************************************************************)
(* Construction (main.js:9-22).                                            *)
(***************************************************************************)
\* ajv.compile({ type: 'object', properties: route.validate })
Compile(route) == IF Has(route, "validate") THEN route.validate ELSE {}

TypeOf(value) ==
    CASE value \in {"object"} -> "object"
      [] value \in {"number", "num:2"} -> "number"
      [] value \in {"str:2"} -> "string"
      [] OTHER -> "undefined"

\* A compiled predicate applied to data: a declared property constrains the
\* value only when the value is present.
Accepts(schema, data) ==
    \A p \in schema :
        LET value == data[p[1]] IN
        TypeOf(value) = "undefined" \/ TypeOf(value) = p[2]

Endpoint(req) == <<req.method, req.pathname>>

Route(r) == routes[Endpoint(request[r])]

Limit_ZeroKept(route) ==
    IF Has(route, "limit") THEN route.limit ELSE DefaultLimit

\* route.limit || 1048576
Limit(route) ==
    IF Has(route, "limit") /\ route.limit # 0 THEN route.limit
    ELSE DefaultLimit

IngestActive_IgnoresAccept(route, req) ==
    Truthy(route, "json") \/ req.method # "GET"

\* route.json || (route.accept === undefined && request.method !== 'GET')
IngestActive(route, req) ==
    Truthy(route, "json") \/ (~Has(route, "accept") /\ req.method # "GET")

\* errored: the error whose event is still to be emitted; emitted: the error
\* whose event the listener has received.
NewStream == [listening |-> FALSE, destroyed |-> FALSE, ended |-> FALSE,
              errored |-> "none", emitted |-> "none"]

Init ==
    /\ routes = RouteTable
    /\ validators = [e \in DOMAIN RouteTable |-> Compile(RouteTable[e])]
    /\ request = [r \in Reqs |-> NoRequest]
    /\ session = [r \in Reqs |-> "undefined"]
    /\ body = [r \in Reqs |-> "undefined"]
    /\ response = [r \in Reqs |-> NewResponse]
    /\ pc = [r \in Reqs |-> "idle"]
    /\ size = [r \in Reqs |-> 0]
    /\ parts = [r \in Reqs |-> <<>>]
    /\ stream = [r \in Reqs |-> NewStream]
    /\ promise = [r \in Reqs |-> "none"]
    /\ error = [r \in Reqs |-> "none"]
    /\ stages = [r \in Reqs |-> <<>>]

shared == <<routes, validators>>
ingest == <<size, parts, stream, promise>>

\* `return send(response, status, message)` inside the outer try: the handler
\* is done, unless send threw, which lands in the outer catch.
ReturnSend(r, status, message) ==
    LET s == send(response[r], status, message) IN
    /\ response' = [response EXCEPT ![r] = s.response]
    /\ pc' = [pc EXCEPT ![r] = IF s.threw THEN "outerCatch" ELSE "done"]
    /\ error' = [error EXCEPT ![r] =
                    IF s.threw THEN "ERR_HTTP_HEADERS_SENT" ELSE "none"]

Goto(r, label) ==
    /\ pc' = [pc EXCEPT ![r] = label]
    /\ UNCHANGED <<response, error>>

Ran(r, stage) == stages' = [stages EXCEPT ![r] = Append(@, stage)]

\* The server hands a request of the set S to the handler (main.js:25-33).
Arrive(r, S) ==
    /\ pc[r] = "idle"
    /\ \E req \in S : request' = [request EXCEPT ![r] = req]
    /\ pc' = [pc EXCEPT ![r] = "resolve"]
    /\ UNCHANGED <<shared, session, body, response, ingest, error, stages>>

Receive(r) == Arrive(r, Requests)

RouteExists_KeyOnly(endpoint) == endpoint \in DOMAIN routes

\* routes.hasOwnProperty(endpoint) && routes[endpoint].respond (main.js:36)
RouteExists(endpoint) ==
    endpoint \in DOMAIN routes /\ Truthy(routes[endpoint], "respond")

\* Check route exists and get it (main.js:35-40).
Resolve(r) ==
    /\ pc[r] = "resolve"
    /\ Ran(r, "Resolve")
    /\ LET endpoint == Endpoint(request[r]) IN
       IF ~RouteExists(endpoint)
       THEN ReturnSend(r, 404, Failure("Not found."))
       ELSE Goto(r, "authenticate")
    /\ UNCHANGED <<shared, request, session, body, ingest>>

MissingToken_FallsThrough(r) == Goto(r, "headers")

\* if (!cookies.token) return send(response, 403, ...) (main.js:46-48)
MissingToken(r) == ReturnSend(r, 403, Failure("Forbidden."))

VerifyFailed_Detailed(r) == ReturnSend(r, 401, Failure("Invalid token."))

\* catch (error) { return send(response, 403, ...) } (main.js:52-54)
VerifyFailed(r) == ReturnSend(r, 403, Failure("Forbidden."))

AuthRequired_Always(route) == TRUE

\* if (route.authenticate) (main.js:43)
AuthRequired(route) == Truthy(route, "authenticate")

\* Authenticate request with HTTP-only cookie containing JWT (main.js:42-55).
Authenticate(r) ==
    /\ pc[r] = "authenticate"
    /\ IF AuthRequired(Route(r))
       THEN LET token == CookieToken(request[r].headers.cookie) IN
            /\ Ran(r, "Authenticate")
            /\ IF token = <<>> \/ token[1] = ""
               THEN /\ MissingToken(r)
                    /\ UNCHANGED session
               ELSE LET v == JwtVerify(token[1], jwtSecret) IN
                    IF v.ok
                    THEN /\ session' = [session EXCEPT ![r] = v.claims]
                         /\ Goto(r, "headers")
                    ELSE /\ VerifyFailed(r)
                         /\ UNCHANGED session
       ELSE /\ Goto(r, "headers")
            /\ UNCHANGED <<session, stages>>
    /\ UNCHANGED <<shared, request, body, ingest>>

\* Set headers (main.js:57-62).  route.headers is a plain object, and
\* `for (const key of route.headers)` throws a TypeError on it.
Headers(r) ==
    /\ pc[r] = "headers"
    /\ IF Has(Route(r), "headers")
       THEN /\ Ran(r, "Headers")
            /\ pc' = [pc EXCEPT ![r] = "outerCatch"]
            /\ error' = [error EXCEPT ![r] = "TypeError"]
            /\ UNCHANGED response
       ELSE /\ Goto(r, "ingest")
            /\ UNCHANGED stages
    /\ UNCHANGED <<shared, request, session, body, ingest>>

\* Get and parse body as JSON, up to the await (main.js:64-79, 92-98).
BodyIngest(r) ==
    /\ pc[r] = "ingest"
    /\ IF IngestActive(Route(r), request[r])
       THEN /\ Ran(r, "BodyIngest")
            /\ size' = [size EXCEPT ![r] = 0]
            /\ parts' = [parts EXCEPT ![r] = <<>>]
            /\ IF MatchesJson(request[r].headers.contentType)
               THEN /\ ReturnSend(r, 406,
                          Failure("Content-Type is not application/json."))
                    /\ UNCHANGED <<stream, promise>>
               ELSE IF HeaderGreater(request[r].headers.contentLength,
                                     Limit(Route(r)))
               THEN /\ ReturnSend(r, 413,
                          Failure("Content was too large for this request."))
                    /\ UNCHANGED <<stream, promise>>
               ELSE /\ stream' = [stream EXCEPT ![r].listening = TRUE]
                    /\ promise' = [promise EXCEPT ![r] = "pending"]
                    /\ Goto(r, "reading")
       ELSE /\ Goto(r, "prepare")
            /\ UNCHANGED <<ingest, stages>>
    /\ UNCHANGED <<shared, request, session, body>>

\* The text a finished body decodes to, and JSON.parse of it: the kind of the
\* parsed value, or a SyntaxError.  An empty buffer is never valid JSON.
BodyTexts == {"object", "number", "malformed"}

JSONParse(chunks, text) ==
    IF chunks = <<>> \/ text = "malformed"
    THEN [threw |-> TRUE, value |-> "undefined"]
    ELSE [threw |-> FALSE, value |-> text]

Destroy_Noop(s, err) == s

\* request.destroy(error): no further data or end event; the error event is
\* emitted on a later tick.
Destroy(s, err) == [s EXCEPT !.destroyed = TRUE, !.errored = err]

CanEmit(r) ==
    /\ stream[r].listening
    /\ ~stream[r].destroyed
    /\ ~stream[r].ended

Buffered_BeforeCheck(chunks, part, over) == Append(chunks, part)

\* parts after the data listener has handled part: the listener returns
\* before parts.push(part) when the size is over the limit (main.js:83-89).
Buffered(chunks, part, over) ==
    IF over THEN chunks ELSE Append(chunks, part)

Counted_Shared(r, part) == [q \in Reqs |-> size[q] + part]

\* size += Buffer.byteLength(part), on the size of the handler invocation
\* the listener belongs to (main.js:73, 81).
Counted(r, part) == [size EXCEPT ![r] = @ + part]

\* request.on('data', part => ...) (main.js:80-90).  A throw of send inside
\* the listener would be an uncaught exception.
OnData(r) ==
    /\ CanEmit(r)
    /\ Len(parts[r]) < MaxChunks
    /\ \E part \in ChunkSizes :
         LET newSize == Counted(r, part)[r] IN
         /\ size' = Counted(r, part)
         /\ IF newSize > Limit(Route(r))
            THEN LET s == send(response[r], 413,
                       Failure("Content was too large for this request.")) IN
                 /\ response' = [response EXCEPT ![r] = s.response]
                 /\ IF s.threw
                    THEN /\ pc' = [pc EXCEPT ![r] = "uncaught"]
                         /\ UNCHANGED stream
                    ELSE /\ stream' = [stream EXCEPT ![r] =
                               Destroy(@, "Content was too large for this request.")]
                         /\ UNCHANGED pc
            ELSE UNCHANGED <<response, stream, pc>>
         /\ parts' = [parts EXCEPT ![r] =
                         Buffered(@, part, newSize > Limit(Route(r)))]
    /\ UNCHANGED <<shared, request, session, body, promise, error, stages>>

\* request.on('end', () => resolve(JSON.parse(Buffer.concat(parts))))
\* (main.js:92-94).  The listener runs on a later tick than the promise
\* executor, so a SyntaxError of JSON.parse is thrown out of the emitter:
\* nothing settles the promise and the handler stays suspended.
OnEnd(r) ==
    /\ CanEmit(r)
    /\ \E text \in BodyTexts :
         LET parsed == JSONParse(parts[r], text) IN
         /\ stream' = [stream EXCEPT ![r].ended = TRUE]
         /\ IF parsed.threw
            THEN /\ pc' = [pc EXCEPT ![r] = "uncaught"]
                 /\ error' = [error EXCEPT ![r] = "SyntaxError"]
                 /\ UNCHANGED <<promise, body>>
            ELSE /\ promise' = [promise EXCEPT ![r] = "resolved"]
                 /\ body' = [body EXCEPT ![r] = parsed.value]
                 /\ UNCHANGED <<pc, error>>
    /\ UNCHANGED <<shared, request, session, response, size, parts, stages>>

\* request.on('error', error => reject(error)) (main.js:96-98): the error
\* queued by destroy, or a transport error of the connection.
OnError(r) ==
    /\ stream[r].listening
    /\ ~stream[r].ended
    /\ \E err \in {stream[r].errored, "ECONNRESET"} :
         /\ err # "none"
         /\ err = stream[r].errored \/ ~stream[r].destroyed
         /\ error' = [error EXCEPT ![r] = err]
         /\ stream' = [stream EXCEPT ![r].errored = "none",
                                     ![r].destroyed = TRUE,
                                     ![r].emitted = err]
    /\ promise' = [promise EXCEPT ![r] =
                      IF @ = "pending" THEN "rejected" ELSE @]
    /\ UNCHANGED <<shared, request, session, body, response, pc, size, parts,
                   stages>>

\* The await of main.js:79 resumes with the parsed body.
BodyReady(r) ==
    /\ pc[r] = "reading"
    /\ promise[r] = "resolved"
    /\ Goto(r, "prepare")
    /\ UNCHANGED <<shared, request, session, body, ingest, stages>>

\* The await of main.js:79 throws into the inner catch (main.js:100-102).
InnerCatch(r) ==
    /\ pc[r] = "reading"
    /\ promise[r] = "rejected"
    /\ ReturnSend(r, 400, Failure("Message could not parse as JSON."))
    /\ UNCHANGED <<shared, request, session, body, ingest, stages>>

\* What a route's prepare delegate may do with (request, response): return
\* without writing (having converted the query), write a failure with send,
\* throw, or write and then throw.
PrepareOutcomes == {"pass", "write", "throw", "writeThrow"}

\* What a route's respond delegate may do: write its answer with send, throw,
\* or write and then throw.
RespondOutcomes == {"send", "throw", "sendThrow"}

\* request.query.page = parseInt(request.query.page)
ParseInt(query) == IF query = "str:2" THEN "num:2" ELSE query

\* A delegate's call of send, and how the awaited call ends for the handler.
Delegate(r, writes, throws, status, message) ==
    LET s == IF writes THEN send(response[r], status, message)
             ELSE [response |-> response[r], threw |-> FALSE] IN
    [response |-> s.response,
     error |-> IF s.threw THEN "ERR_HTTP_HEADERS_SENT"
               ELSE IF throws THEN "Error" ELSE "none"]

\* Prepare request before validating and responding (main.js:105-109).
Prepare(r) ==
    /\ pc[r] = "prepare"
    /\ IF Truthy(Route(r), "prepare")
       THEN /\ Ran(r, "Prepare")
            /\ \E outcome \in PrepareOutcomes :
                 LET d == Delegate(r, outcome \in {"write", "writeThrow"},
                                   outcome \in {"throw", "writeThrow"},
                                   400, Failure("Page was not a number.")) IN
                 /\ response' = [response EXCEPT ![r] = d.response]
                 /\ error' = [error EXCEPT ![r] = d.error]
                 /\ request' = [request EXCEPT ![r].query =
                                   IF outcome = "pass" THEN ParseInt(@) ELSE @]
                 /\ pc' = [pc EXCEPT ![r] =
                              IF d.error # "none" THEN "outerCatch"
                              ELSE IF ~d.response.writableEnded THEN "done"
                              ELSE "validate"]
       ELSE /\ Goto(r, "validate")
            /\ UNCHANGED <<request, stages>>
    /\ UNCHANGED <<shared, session, body, ingest>>

\* Validate request data (main.js:111-120).
Validate(r) ==
    /\ pc[r] = "validate"
    /\ Ran(r, "Validate")
    /\ LET data == [query |-> request[r].query,
                    headers |-> request[r].headers,
                    body |-> body[r]] IN
       IF ~Accepts(validators[Endpoint(request[r])], data)
       THEN ReturnSend(r, 400, Failure("Message is invalid."))
       ELSE Goto(r, "respond")
    /\ UNCHANGED <<shared, request, session, body, ingest>>

\* Send response (main.js:122-123).
Respond(r) ==
    /\ pc[r] = "respond"
    /\ Ran(r, "Respond")
    /\ \E outcome \in RespondOutcomes :
         LET d == Delegate(r, outcome \in {"send", "sendThrow"},
                           outcome \in {"throw", "sendThrow"},
                           200, Success("ok")) IN
         /\ response' = [response EXCEPT ![r] = d.response]
         /\ error' = [error EXCEPT ![r] = d.error]
         /\ pc' = [pc EXCEPT ![r] =
                      IF d.error # "none" THEN "outerCatch" ELSE "done"]
    /\ UNCHANGED <<shared, request, session, body, ingest>>

\* The outer catch (main.js:124-130).  A throw of send here would reject the
\* handler's own promise.
OuterCatch(r) ==
    /\ pc[r] = "outerCatch"
    /\ IF ~response[r].writableEnded
       THEN LET s == send(response[r], 500,
                          Failure("Internal server error.")) IN
            /\ response' = [response EXCEPT ![r] = s.response]
            /\ pc' = [pc EXCEPT ![r] = IF s.threw THEN "uncaught" ELSE "done"]
            /\ error' = [error EXCEPT ![r] =
                            IF s.threw THEN "ERR_HTTP_HEADERS_SENT"
                            ELSE "none"]
       ELSE /\ pc' = [pc EXCEPT ![r] = "done"]
            /\ error' = [error EXCEPT ![r] = "none"]
            /\ UNCHANGED response
    /\ UNCHANGED <<shared, request, session, body, ingest, stages>>

\* The steps of the handler of r and of its stream listeners.
Handle(r) ==
    \/ Resolve(r)
    \/ Authenticate(r)
    \/ Headers(r)
    \/ BodyIngest(r)
    \/ OnData(r)
    \/ OnEnd(r)
    \/ OnError(r)
    \/ BodyReady(r)
    \/ InnerCatch(r)
    \/ Prepare(r)
    \/ Validate(r)
    \/ Respond(r)
    \/ OuterCatch(r)

Step(r) == Receive(r) \/ Handle(r)

Next == \E r \in Solo : Step(r)

Spec == Init /\ [][Next]_vars

(***************************************************************************)
(* Two requests in flight at once: their handler steps and stream events   *)
(* interleave in any order.                                                *)
(***************************************************************************)
NoHeaders == [cookie |-> <<>>, contentType |-> <<>>, contentLength |-> <<>>]

PairRequests ==
    {[method |-> "POST", pathname |-> "/json", query |-> "none",
      headers |-> NoHeaders],
     [method |-> "POST", pathname |-> "/zero", query |-> "none",
      headers |-> [NoHeaders EXCEPT !.contentLength = <<"5">>]],
     [method |-> "GET", pathname |-> "/page", query |-> "str:2",
      headers |-> NoHeaders],
     [method |-> "GET", pathname |-> "/important", query |-> "none",
      headers |-> [NoHeaders EXCEPT !.cookie = << <<"token", "s1.live">> >>]],
     [method |-> "GET", pathname |-> "/cors", query |-> "none",
      headers |-> NoHeaders]}

ReceivePair(r) == Arrive(r, PairRequests)

NextPair == \E r \in Reqs : ReceivePair(r) \/ Handle(r)

SpecPair == Init /\ [][NextPair]_vars

(***************************************************************************)
(* Properties.                                                             *)
(***************************************************************************)
Wire(r) == response[r].wire

\* The client of r received exactly one response: this failure.
Failed(r, status, text) ==
    Wire(r) = <<[status |-> status, message |-> Failure(text)]>>

Past(r, labels) == pc[r] \notin ({"idle"} \cup labels)

\* Nothing of body ingestion, prepare, validation or respond has happened.
NoBodyWork(r) ==
    /\ ~stream[r].listening
    /\ promise[r] = "none"
    /\ parts[r] = <<>>
    /\ size[r] = 0
    /\ body[r] = "undefined"

\* C1: every request handled gets exactly one terminal response: the
\* response is never finalized twice, and a handler that has returned has
\* written it.
C1_ExactlyOneResponse ==
    \A r \in Reqs :
        /\ Len(Wire(r)) <= 1
        /\ pc[r] = "done" => Len(Wire(r)) = 1

\* C2: a request whose endpoint key is absent from the route table, or whose
\* descriptor has no respond delegate, is answered 404 "Not found." and no
\* later stage runs for it.
C2_NotFound ==
    \A r \in Reqs :
        (/\ Past(r, {"resolve"})
         /\ LET e == Endpoint(request[r]) IN
            e \notin DOMAIN RouteTable \/ ~Has(RouteTable[e], "respond"))
        => /\ pc[r] = "done"
           /\ Failed(r, 404, "Not found.")
           /\ response[r].sendCalls = 1
           /\ stages[r] = <<"Resolve">>
           /\ session[r] = "undefined"
           /\ NoBodyWork(r)

C2_Witness ==
    /\ pc[1] = "done"
    /\ Endpoint(request[1]) = <<"GET", "/norespond">>
    /\ Failed(1, 404, "Not found.")

Registered(req) ==
    /\ Endpoint(req) \in DOMAIN RouteTable
    /\ Has(RouteTable[Endpoint(req)], "respond")

RequiresAuth(req) ==
    /\ Registered(req)
    /\ Has(RouteTable[Endpoint(req)], "authenticate")
    /\ RouteTable[Endpoint(req)].authenticate

\* The Cookie header holds no pair named token.
NoTokenCookie(req) ==
    \A i \in DOMAIN req.headers.cookie : req.headers.cookie[i][1] # "token"

\* What a client refused at authentication observes, and what the refusal
\* leaves behind on the server.
Forbidden(r) ==
    /\ pc[r] = "done"
    /\ Failed(r, 403, "Forbidden.")
    /\ response[r].statusCode = 403
    /\ response[r].headers = {"Content-Type", "Content-Length"}
    /\ response[r].sendCalls = 1
    /\ stages[r] = <<"Resolve", "Authenticate">>
    /\ session[r] = "undefined"
    /\ NoBodyWork(r)

\* C3: on a route with authenticate true, a request without a token cookie
\* is answered 403 "Forbidden." and neither body ingestion nor the prepare or
\* respond delegate runs for it.
C3_NoCookieForbidden ==
    \A r \in Reqs :
        (/\ Past(r, {"resolve", "authenticate"})
         /\ RequiresAuth(request[r])
         /\ NoTokenCookie(request[r]))
        => Forbidden(r)

C3_Witness ==
    /\ pc[1] = "done"
    /\ Endpoint(request[1]) = <<"POST", "/upload">>
    /\ request[1].headers.cookie = << <<"theme", "dark">> >>
    /\ Failed(1, 403, "Forbidden.")

\* The token cookie of the request is one the verifier rejects: signed with
\* another key, expired, or not a token at all.
BadToken(req) ==
    \E i \in DOMAIN req.headers.cookie :
        /\ req.headers.cookie[i][1] = "token"
        /\ \A j \in 1..(i - 1) : req.headers.cookie[j][1] # "token"
        /\ req.headers.cookie[i][2] \in {"", "garbage", "s1.expired", "s2.live"}

\* C4: on a route with authenticate true, a request whose token fails
\* verification, whatever the cause, observes exactly what a request without
\* the cookie observes: 403 "Forbidden.", no session, no later stage.
C4_UniformForbidden ==
    \A r \in Reqs :
        (/\ Past(r, {"resolve", "authenticate"})
         /\ RequiresAuth(request[r])
         /\ BadToken(request[r]))
        => Forbidden(r)

C4_Witness ==
    /\ pc[1] = "done"
    /\ Endpoint(request[1]) = <<"GET", "/important">>
    /\ request[1].headers.cookie = << <<"token", "s1.expired">> >>
    /\ Failed(1, 403, "Forbidden.")

Range(seq) == {seq[i] : i \in DOMAIN seq}

\* The handler of r will take no further step.
Finished(r) == pc[r] \in {"done", "uncaught"}

\* The route's limit when it is a non-zero number, 1,048,576 otherwise.
EffectiveLimit(req) ==
    LET route == RouteTable[Endpoint(req)] IN
    IF Has(route, "limit") /\ route.limit > 0 THEN route.limit ELSE 1048576

\* The body ingestor applies to the request: json is set, or accept is not
\* declared and the method is not GET.
IngestApplies(req) ==
    LET route == RouteTable[Endpoint(req)] IN
    \/ (Has(route, "json") /\ route.json)
    \/ (~Has(route, "accept") /\ req.method # "GET")

\* The request passes authentication: none is required, or its token cookie
\* is signed with the server's secret and has not expired.
AuthPasses(req) ==
    \/ ~RequiresAuth(req)
    \/ (~NoTokenCookie(req) /\ ~BadToken(req))

\* The request's Content-Type is acceptable: absent, or application/json with
\* optional whitespace and parameters.
JsonOrAbsent(req) ==
    \/ req.headers.contentType = <<>>
    \/ req.headers.contentType[1] \in
         {<<"application/json">>,
          <<"application/json", " ">>,
          <<"application/json", ";", "charset=utf-8">>,
          <<"application/json", " ", ";", "charset=utf-8">>}

\* The declared Content-Length is a number above the effective limit.
DeclaredTooLarge(req) ==
    /\ req.headers.contentLength \in {<<"5">>, <<"11">>, <<"1048577">>}
    /\ LET n == CASE req.headers.contentLength = <<"5">> -> 5
                  [] req.headers.contentLength = <<"11">> -> 11
                  [] OTHER -> 1048577 IN
       n > EffectiveLimit(req)

\* The request reaches the body ingestor as the stages before it are meant
\* to work: registered route, authentication passed, no headers mapping to
\* inject, ingestor applicable.
ReachesIngest(req) ==
    /\ Registered(req)
    /\ AuthPasses(req)
    /\ ~Has(RouteTable[Endpoint(req)], "headers")
    /\ IngestApplies(req)

PastIngest(r) == Past(r, {"resolve", "authenticate", "headers", "ingest"})

\* C5: with the body ingestor active, a Content-Type that is present and is
\* not application/json is answered 406 before any size check or body read,
\* and an absent or application/json Content-Type is never answered 406.
C5_ContentTypeCheck ==
    \A r \in Reqs :
        (PastIngest(r) /\ ReachesIngest(request[r]))
        => /\ Failed(r, 406, "Content-Type is not application/json.")
                <=> ~JsonOrAbsent(request[r])
           /\ ~JsonOrAbsent(request[r]) => (pc[r] = "done" /\ NoBodyWork(r))

\* C6: a request to a body-ingesting route whose declared Content-Length
\* exceeds the effective limit is answered 413 before any body chunk is read:
\* no listener is attached and nothing is buffered or parsed.
C6_DeclaredSizeRejected ==
    \A r \in Reqs :
        (/\ PastIngest(r)
         /\ ReachesIngest(request[r])
         /\ JsonOrAbsent(request[r])
         /\ DeclaredTooLarge(request[r]))
        => /\ pc[r] = "done"
           /\ Failed(r, 413, "Content was too large for this request.")
           /\ NoBodyWork(r)

\* The data listener of r has counted more bytes than the limit allows.
OverLimit(r) ==
    /\ stream[r].listening
    /\ size[r] > EffectiveLimit(request[r])

RECURSIVE Sum(_)
Sum(seq) == IF seq = <<>> THEN 0 ELSE Head(seq) + Sum(Tail(seq))

\* C7: at the first chunk that takes the running total over the limit the
\* stream is aborted and the client receives 413; from then on no chunk and
\* no end of stream is processed, and prepare, validation and respond never
\* run for the request.
C7_StreamAbort ==
    /\ [](\A r \in Reqs :
            OverLimit(r)
            => /\ stream[r].destroyed
               /\ ~stream[r].ended
               /\ Failed(r, 413, "Content was too large for this request.")
               /\ Sum(parts[r]) <= EffectiveLimit(request[r])
               /\ body[r] = "undefined"
               /\ promise[r] # "resolved"
               /\ Range(stages[r]) \cap {"Prepare", "Validate", "Respond"} = {})
    /\ [][\A r \in Reqs :
            OverLimit(r)
            => /\ size'[r] = size[r]
               /\ parts'[r] = parts[r]
               /\ Wire(r)' = Wire(r)]_vars

C7_Witness ==
    /\ Endpoint(request[1]) = <<"POST", "/json">>
    /\ request[1].headers.contentLength = <<"5">>
    /\ parts[1] = <<4>>
    /\ size[1] = 11
    /\ pc[1] = "done"
    /\ Failed(1, 413, "Content was too large for this request.")

\* C8: once a request has been aborted for exceeding the size limit, the
\* error event of the destroyed stream leads to no further write on the
\* response: send is not called on it again and its status stays 413.
C8_NoLateWrite ==
    \A r \in Reqs :
        OverLimit(r)
        => /\ response[r].sendCalls = 1
           /\ response[r].statusCode = 413

\* C9: a body stream that completes within the limit but does not parse as
\* JSON ends in the response 400 "Message could not parse as JSON.", and
\* prepare, validation and respond are not run.
C9_ParseFailure ==
    \A r \in Reqs :
        (/\ Finished(r)
         /\ stream[r].ended
         /\ error[r] = "SyntaxError")
        => /\ Failed(r, 400, "Message could not parse as JSON.")
           /\ Range(stages[r]) \cap {"Prepare", "Validate", "Respond"} = {}

\* C10: a transport error of the body stream, while no response has been
\* written, ends in the response 500 "Internal server error.".
C10_TransportError ==
    \A r \in Reqs :
        (Finished(r) /\ stream[r].emitted = "ECONNRESET")
        => Failed(r, 500, "Internal server error.")

\* The compiled predicate of r's route rejects the {query, headers, body}
\* object of r.
Rejected(r) ==
    LET route == RouteTable[Endpoint(request[r])] IN
    /\ Has(route, "validate")
    /\ \E p \in route.validate :
         LET value == IF p[1] = "body" THEN body[r] ELSE request[r].query IN
         /\ value \notin {"undefined", "none"}
         /\ \/ (p[2] = "object" /\ value # "object")
            \/ (p[2] = "number" /\ value \notin {"number", "num:2"})

\* C11: a request that reaches the Validate stage and is rejected by the
\* route's compiled predicate is answered 400 "Message is invalid." and its
\* respond delegate is never invoked; the respond delegate is invoked only
\* for requests the predicate accepted.
C11_InvalidRejected ==
    \A r \in Reqs :
        "Validate" \in Range(stages[r])
        => /\ (Rejected(r) /\ Finished(r))
                => Failed(r, 400, "Message is invalid.")
           /\ Rejected(r) => (pc[r] # "respond"
                              /\ "Respond" \notin Range(stages[r]))

Last(seq) == seq[Len(seq)]

\* The response r's client received was written by the prepare delegate.
PrepareWrote(r) ==
    /\ Wire(r) # <<>>
    /\ Wire(r)[1].message = Failure("Page was not a number.")

\* C12: on a route with a prepare delegate, dispatch stops after prepare only
\* when a terminal response has been written, and validation (and after it
\* the respond delegate) runs only when prepare returned without writing one.
C12_PrepareGate ==
    \A r \in Reqs :
        "Prepare" \in Range(stages[r])
        => /\ (pc[r] = "done" /\ Last(stages[r]) = "Prepare")
                => Len(Wire(r)) = 1
           /\ "Validate" \in Range(stages[r]) => ~PrepareWrote(r)

PastHeaders(r) == Past(r, {"resolve", "authenticate", "headers"})

\* C13: for a resolved and, where required, authenticated request on a route
\* that declares a headers mapping, every header of the mapping is set on the
\* response before the later stages, and the Headers stage never ends the
\* request with a failure response.
C13_HeadersInjected ==
    \A r \in Reqs :
        (/\ PastHeaders(r)
         /\ Registered(request[r])
         /\ AuthPasses(request[r])
         /\ Has(RouteTable[Endpoint(request[r])], "headers"))
        => /\ RouteTable[Endpoint(request[r])].headers
                \subseteq response[r].headers
           /\ pc[r] # "outerCatch"
           /\ ~Failed(r, 500, "Internal server error.")

\* C14: every exception thrown during a stage is caught by the outermost
\* catch, which writes 500 "Internal server error." exactly when no response
\* has been finalized at that moment: no exception stays uncaught or is
\* answered elsewhere, and the 500 is never written on top of a response.
C14_OuterCatchOnly ==
    /\ [](\A r \in Reqs :
            /\ pc[r] # "uncaught"
            /\ error[r] # "none" => pc[r] = "outerCatch"
            /\ Len(Wire(r)) <= 1)
    /\ [][\A r \in Reqs :
            (pc[r] = "outerCatch" /\ pc'[r] # "outerCatch")
            => /\ pc'[r] = "done"
               /\ IF response[r].writableEnded
                  THEN Wire(r)' = Wire(r)
                  ELSE Wire(r)' = <<[status |-> 500,
                                     message |-> Failure("Internal server error.")]>>]_vars

\* The first token cookie of the request verifies against the server's
\* secret.
GoodToken(req) ==
    \E i \in DOMAIN req.headers.cookie :
        /\ req.headers.cookie[i] = <<"token", "s1.live">>
        /\ \A j \in 1..(i - 1) : req.headers.cookie[j][1] # "token"

Arrived(r) == pc[r] # "idle"

\* C15: the authenticator runs only on routes that declare authenticate
\* true; on such a route the prepare and respond delegates are invoked only
\* with the session claims of a verified token attached; on any other route
\* no session is attached and no 403 is produced.
C15_AuthOnlyWhenDeclared ==
    \A r \in Reqs :
        Arrived(r)
        => /\ "Authenticate" \in Range(stages[r]) => RequiresAuth(request[r])
           /\ (/\ RequiresAuth(request[r])
               /\ \/ pc[r] = "respond"
                  \/ Range(stages[r]) \cap {"Prepare", "Respond"} # {})
              => (session[r] = "claims" /\ GoodToken(request[r]))
           /\ ~RequiresAuth(request[r])
              => /\ session[r] = "undefined"
                 /\ response[r].statusCode # 403
                 /\ \A i \in DOMAIN Wire(r) : Wire(r)[i].status # 403

C15_Witness ==
    /\ Endpoint(request[1]) = <<"POST", "/upload">>
    /\ session[1] = "claims"
    /\ Last(stages[1]) = "Respond"
    /\ pc[1] = "done"
    /\ Wire(1) = <<[status |-> 200, message |-> Success("ok")]>>

StageOrder == <<"Resolve", "Authenticate", "Headers", "BodyIngest",
                "Prepare", "Validate", "Respond">>

StageIndex(stage) == CHOOSE i \in DOMAIN StageOrder : StageOrder[i] = stage

\* The stages of seq are in the order of StageOrder, none of them twice.
InStageOrder(seq) ==
    \A i, j \in DOMAIN seq :
        i < j => StageIndex(seq[i]) < StageIndex(seq[j])

\* C16: the stages of a request run in the order Resolve, Authenticate,
\* Headers, Body Ingest, Prepare, Validate, Respond, each at most once, and
\* once a stage has taken its exit by writing the terminal response no
\* further stage starts; so the respond delegate runs at most once and only
\* with the response still unwritten.
C16_StrictStageOrder ==
    /\ [](\A r \in Reqs : InStageOrder(stages[r]))
    /\ [][\A r \in Reqs :
            response[r].writableEnded => stages'[r] = stages[r]]_vars

\* The request gets as far as the body ingest guard: registered route,
\* authentication passed, no headers mapping to inject.
ReachesIngestGuard(req) ==
    /\ Registered(req)
    /\ AuthPasses(req)
    /\ ~Has(RouteTable[Endpoint(req)], "headers")

\* A response of the body ingestor: 406, 413 or the 400 of a parse failure.
BodyFailure(w) ==
    \/ w.status \in {406, 413}
    \/ w.message = Failure("Message could not parse as JSON.")

\* C17: the body ingestor is active exactly when the route has json true, or
\* has no accept and the method is not GET; when it is inactive no listener
\* is attached, no chunk is read, request.body stays absent and none of 406,
\* 413 and the 400 of a parse failure is produced.
C17_IngestGuard ==
    \A r \in Reqs :
        (PastIngest(r) /\ ReachesIngestGuard(request[r]))
        => /\ "BodyIngest" \in Range(stages[r]) <=> IngestApplies(request[r])
           /\ ~IngestApplies(request[r])
              => /\ NoBodyWork(r)
                 /\ \A i \in DOMAIN Wire(r) : ~BodyFailure(Wire(r)[i])
                 /\ response[r].statusCode \notin {406, 413}

C17_Witness ==
    /\ Endpoint(request[1]) = <<"POST", "/raw">>
    /\ request[1].headers.contentType = << <<"text/plain">> >>
    /\ request[1].headers.contentLength = <<"1048577">>
    /\ stages[1] = <<"Resolve", "Validate", "Respond">>
    /\ body[1] = "undefined"
    /\ pc[1] = "done"
    /\ Wire(1) = <<[status |-> 200, message |-> Success("ok")]>>

\* C18: the size check is made on every chunk before the chunk is buffered:
\* the chunks held in parts never total more than the effective limit, and
\* the byte counter is ahead of the buffer only by the one chunk that was
\* refused.
C18_BufferBounded ==
    \A r \in Reqs :
        stream[r].listening
        => /\ Sum(parts[r]) <= EffectiveLimit(request[r])
           /\ \/ size[r] = Sum(parts[r])
              \/ /\ size[r] > EffectiveLimit(request[r])
                 /\ (size[r] - Sum(parts[r])) \in ChunkSizes

C18_Witness ==
    /\ Endpoint(request[1]) = <<"POST", "/upload">>
    /\ parts[1] = <<1048576>>
    /\ size[1] = 1048583
    /\ stream[1].destroyed

TooLarge == "Content was too large for this request."

\* The data listener of r has aborted the stream.
Aborted(r) ==
    /\ stream[r].destroyed
    /\ TooLarge \in {stream[r].errored, stream[r].emitted}

\* C20: the effective limit is the route's limit when that is a non-zero
\* number and 1,048,576 otherwise, so a route with limit 0 accepts bodies up
\* to 1,048,576 bytes; the upfront check rejects exactly the declared lengths
\* above the effective limit, and passes whenever Content-Length is absent,
\* leaving enforcement to the per-chunk check.
C20_EffectiveLimit ==
    \A r \in Reqs :
        "BodyIngest" \in Range(stages[r])
        => /\ stream[r].listening
              => (Aborted(r) <=> size[r] > EffectiveLimit(request[r]))
           /\ (~stream[r].listening /\ response[r].statusCode # 406)
              => /\ DeclaredTooLarge(request[r])
                 /\ Failed(r, 413, TooLarge)
           /\ stream[r].listening => ~DeclaredTooLarge(request[r])
           /\ (request[r].headers.contentLength = <<>>
               /\ response[r].statusCode # 406)
              => stream[r].listening

C20_Witness ==
    /\ Endpoint(request[1]) = <<"POST", "/zero">>
    /\ request[1].headers.contentLength = <<>>
    /\ parts[1] = <<4, 7>>
    /\ size[1] = 11
    /\ promise[1] = "resolved"
    /\ body[1] = "object"
    /\ Wire(1) = <<>>

\* Everything the handler invocation of r owns.
Local(r) ==
    <<request[r], session[r], body[r], response[r], pc[r], size[r], parts[r],
      stream[r], promise[r], error[r], stages[r]>>

====
